---- MODULE Spec2Model ----
(***************************************************************************)
(* A model of chrome-driver-manager (DriverManager.py): the manager        *)
(* object, its manifest (self.config, mirrored to config.json), the cache  *)
(* directory, and the operations __init__, getPath, downloadDriver and     *)
(* removePatch.                                                            *)
(*                                                                         *)
(* Python strings are sequences of one-character strings, so that split,   *)
(* rfind and slicing are computed the way the code computes them.  None is *)
(* the value None below, a dictionary is a function whose DOMAIN is its    *)
(* key set, and a raised exception is an outcome "raised" with its class.  *)
(***************************************************************************)
EXTENDS Integers, Sequences, FiniteSets, TLC

\* ------------------------------------------------------------------ bounds

\* Timestamps are seconds since the manager was made; the clock is read up
\* to MaxTime.
MaxTime == 2

\* Longest string handed to removePatch in SpecPatch ("9.6.9.6" has 7).
MaxLen == 7

\* ------------------------------------------------------------------ values

None == <<"None">>

EmptyDict == [k \in {} |-> k]

Falsy(x) == x = None \/ x = <<>> \/ x = EmptyDict

\* Installed browser versions: the two of the same major of the spec's
\* example, and one of the next major.
V96a == <<"9","6",".","0",".","4","6","6","4",".","1","0">>
V96b == <<"9","6",".","0",".","4","6","6","4",".","4","5">>
V97 == <<"9","7",".","0",".","4","6","9","2",".","2","0">>

ChromeVersions == {V96a, V96b, V97}

\* What the distribution service answers for LATEST_RELEASE_<key>.
K96 == <<"9","6",".","0",".","4","6","6","4">>
K97 == <<"9","7",".","0",".","4","6","9","2">>
D96 == <<"9","6",".","0",".","4","6","6","4",".","4","5">>
D97 == <<"9","7",".","0",".","4","6","9","2",".","7","1">>

Platforms == {"linux", "darwin", "win32"}

\* ------------------------------------------------------------------ strings

\* str.rfind(c): 0-based index of the last occurrence, -1 when there is none.
RECURSIVE rfindFrom(_, _, _)
rfindFrom(s, c, i) ==
    IF i = 0 THEN -1
    ELSE IF s[i] = c THEN i - 1
    ELSE rfindFrom(s, c, i - 1)

rfind(s, c) == rfindFrom(s, c, Len(s))

\* str.find(c): 0-based index of the first occurrence, -1 when there is none.
RECURSIVE findFrom(_, _, _)
findFrom(s, c, i) ==
    IF i > Len(s) THEN -1
    ELSE IF s[i] = c THEN i - 1
    ELSE findFrom(s, c, i + 1)

find(s, c) == findFrom(s, c, 1)

\* s[:stop], a negative stop counting from the end.
SliceTo(s, stop) ==
    LET n == IF stop < 0 THEN (IF Len(s) + stop < 0 THEN 0 ELSE Len(s) + stop)
             ELSE (IF stop > Len(s) THEN Len(s) ELSE stop)
    IN SubSeq(s, 1, n)

removePatch_First(version) ==
    LET lastDotIndex == find(version, ".")
    IN IF lastDotIndex # -1 THEN SliceTo(version, lastDotIndex) ELSE version

removePatch(version) ==
    LET lastDotIndex == rfind(version, ".")
    IN IF lastDotIndex # -1 THEN SliceTo(version, lastDotIndex) ELSE version

\* version.split(".")[0]
getMajorVersion(version) ==
    LET firstDot == find(version, ".")
    IN IF firstDot # -1 THEN SliceTo(version, firstDot) ELSE version

getBuildTarget(p) ==
    IF p = "win32" THEN "win32"
    ELSE IF p = "darwin" THEN "mac64" ELSE "linux64"

\* The text of a 200 answer of LATEST_RELEASE_<key>; an unknown key is a 404.
RemoteLatest(key) ==
    IF key = K96 THEN D96 ELSE IF key = K97 THEN D97 ELSE None

\* ------------------------------------------------------------------ state

VARIABLES
    platform,    \* self.platform (sys.platform)
    chrome,      \* the browser version installed on the host
    detect,      \* which detection strategy finds it: "registry", "folder", "none"
    attrs,       \* the attributes set on the manager object so far
    ctor,        \* how far __init__ got: [state, err]
    rootExists,  \* whether ~/.chrome-drivers exists
    config,      \* self.config, the in-memory manifest
    diskConfig,  \* config.json: [state, data]
    dirs,        \* the driver-version directories under the cache root
    extracted,   \* those of them an archive was extracted into
    archive,     \* chromedriver_<target>.zip in the cache root: "absent", "stale"
    last,        \* the last completed call of getPath or downloadDriver
    prev,        \* the call right before it, while the browser stayed the same
    patchArg,    \* the argument of the last removePatch call
    patchRes     \* and its result

vars == <<platform, chrome, detect, attrs, ctor, rootExists, config, diskConfig,
          dirs, extracted, archive, last, prev, patchArg, patchRes>>

AllAttrs == {"platform", "chromeVersion", "config", "filesPath"}

\* dfConfig of __readConfig.
DefaultConfig(t) ==
    [downloadedDrivers |-> <<>>,
     currentChromeVersion |-> None,
     lastDownloadedDriver |-> EmptyDict,
     lastUpdated |-> t]

NoFile == [state |-> "absent", data |-> EmptyDict]

ValidFile(cfg) == [state |-> "valid", data |-> cfg]

CorruptFile == [state |-> "corrupt", data |-> EmptyDict]

Ok(v) == [raised |-> FALSE, err |-> "", value |-> v]

Raise(e) == [raised |-> TRUE, err |-> e, value |-> None]

\* d[k] of a Python dict.
getItem(d, k) == IF k \in DOMAIN d THEN Ok(d[k]) ELSE Raise("KeyError")

\* ------------------------------------------------------------------ detection

\* The registry query and __extractVersionRegistry: rindex raises ValueError
\* when the output has no DisplayVersion line, which the except TypeError of
\* __extractVersionRegistry does not catch.
extractVersionRegistry(det, installed) ==
    IF det = "registry" THEN Ok(installed) ELSE Raise("ValueError")

\* The scan of the two Program Files directories.
extractVersionFolder(det, installed) ==
    IF det = "folder" THEN installed ELSE None

\* getChromeVersion: only the win32 branch assigns version; the fallback
\* expression calls .read() on a str, which raises AttributeError.
getChromeVersion(p, det, installed) ==
    LET version ==
            IF p = "win32"
            THEN LET reg == extractVersionRegistry(det, installed)
                 IN IF reg.raised THEN extractVersionFolder(det, installed)
                    ELSE reg.value
            ELSE None
    IN IF ~Falsy(version) THEN Ok(version) ELSE Raise("AttributeError")

\* ------------------------------------------------------------------ manifest

\* __ensureDir of the cache root.
ensureDir(exists) == TRUE

\* __readConfig: configPath is built from self.filesPath; an existing file is
\* parsed, a missing one is written with the default manifest.
readConfig(has, disk, root, t) ==
    IF "filesPath" \notin has
    THEN [raised |-> TRUE, err |-> "AttributeError", value |-> EmptyDict, disk |-> disk]
    ELSE IF disk.state = "valid"
    THEN [raised |-> FALSE, err |-> "", value |-> disk.data, disk |-> disk]
    ELSE IF disk.state = "corrupt"
    THEN [raised |-> TRUE, err |-> "JSONDecodeError", value |-> EmptyDict, disk |-> disk]
    ELSE IF ~root
    THEN [raised |-> TRUE, err |-> "FileNotFoundError", value |-> EmptyDict, disk |-> disk]
    ELSE [raised |-> FALSE, err |-> "", value |-> DefaultConfig(t),
          disk |-> ValidFile(DefaultConfig(t))]

\* __updateConfig: stamps lastUpdated and rewrites config.json.
updateConfig(cfg, t) == [cfg EXCEPT !.lastUpdated = t]

\* The statements of __init__ in the order of the source, up to the first one
\* that raises.
construct(p, det, installed, disk, root, t) ==
    LET has1 == {"platform"}
        cv == getChromeVersion(p, det, installed)
        has2 == has1 \cup {"chromeVersion"}
        rc == readConfig(has2, disk, root, t)
        has4 == has2 \cup {"config", "filesPath"}
    IN IF cv.raised
       THEN [state |-> "raised", err |-> cv.err, attrs |-> has1,
             config |-> EmptyDict, disk |-> disk, root |-> root]
       ELSE IF rc.raised
       THEN [state |-> "raised", err |-> rc.err, attrs |-> has2,
             config |-> EmptyDict, disk |-> disk, root |-> root]
       ELSE [state |-> "ready", err |-> "", attrs |-> has4,
             config |-> rc.value, disk |-> rc.disk, root |-> ensureDir(root)]

\* ------------------------------------------------------------------ download

\* What the environment does to one downloadDriver call: the answer to the
\* metadata lookup ("200", "404", or "exception" for a transport error), the
\* end of the archive fetch ("ok" or "error"), whether the fetched archive
\* is sound, the seconds dt since the manifest was last stamped at which
\* the clock is read for downloadedOn, and the seconds tick that pass before
\* __updateConfig reads it again.  A field the call never gets to is left at
\* its first value.
Env(resp, fetch, zipok, dt, tick) ==
    [resp |-> resp, fetch |-> fetch, zipok |-> zipok, dt |-> dt, tick |-> tick]

Envs ==
    {Env("404", "ok", TRUE, 0, 0), Env("exception", "ok", TRUE, 0, 0),
     Env("200", "error", TRUE, 0, 0), Env("200", "ok", FALSE, 0, 0)}
    \cup {Env("200", "ok", TRUE, dt, tick) : dt \in 0..1, tick \in 0..1}

getCompatibleDriver_Uncaught(version, resp) ==
    IF resp = "200" THEN Ok(RemoteLatest(removePatch(version)))
    ELSE IF resp = "exception" THEN Raise("ConnectionError")
    ELSE Ok(None)

\* __getCompatibleDriver: the text of a 200 answer, None for another status,
\* and None (the function falls off its end) after a caught exception.
getCompatibleDriver(version, resp) ==
    IF resp = "200" THEN Ok(RemoteLatest(removePatch(version)))
    ELSE Ok(None)

alreadyDownloaded_Never(existing, driverVersion) == FALSE

alreadyDownloaded_Populated(existing, driverVersion) == driverVersion \in extracted

\* os.path.exists(os.path.join(self.filesPath, driverVersion))
alreadyDownloaded(existing, driverVersion) == driverVersion \in existing

\* driverConfig
driverConfigOf(driverVersion, version, t) ==
    [version |-> driverVersion,
     chromeVersion |-> version,
     driverPath |-> <<driverVersion, "chromedriver.exe">>,
     downloadedOn |-> t]

recordDownload_NoLast(cfg, driverConfig, version) ==
    [cfg EXCEPT !.downloadedDrivers = Append(@, driverConfig),
                !.currentChromeVersion = version]

\* The three assignments to self.config.
recordDownload(cfg, driverConfig, version) ==
    [cfg EXCEPT !.downloadedDrivers = Append(@, driverConfig),
                !.lastDownloadedDriver = driverConfig,
                !.currentChromeVersion = version]

\* What a downloadDriver call leaves unchanged unless said otherwise.
Untouched ==
    [err |-> "", config |-> config, disk |-> diskConfig, dirs |-> dirs,
     extracted |-> extracted, archive |-> archive, dv |-> None,
     hit |-> FALSE, fetched |-> FALSE, unzipped |-> FALSE, lookups |-> 0]

\* downloadDriver(version) in the current state, where the lookup answers
\* resp, the archive fetch ends as fetch, the fetched archive is sound iff
\* zipok, and the clock reads t for downloadedOn and t + tick for lastUpdated.
downloadDriver(version, resp, fetch, zipok, t, tick) ==
    LET cd == getCompatibleDriver(version, resp)
        dv == cd.value
        base == [Untouched EXCEPT !.lookups = 1, !.dv = dv]
        \* wget.download does not overwrite: beside an archive left behind
        \* the new one gets another name, and the old one is the one opened.
        sound == zipok /\ archive = "absent"
        rec == driverConfigOf(dv, version, t)
        cfg == updateConfig(recordDownload(config, rec, version), t + tick)
    IN IF cd.raised THEN [base EXCEPT !.err = cd.err]
       ELSE IF dv = None THEN [base EXCEPT !.err = "TypeError"]
       ELSE IF alreadyDownloaded(dirs, dv)
       THEN [base EXCEPT !.hit = TRUE]
       ELSE IF fetch = "error" THEN [base EXCEPT !.err = "URLError"]
       ELSE IF ~sound
       THEN [base EXCEPT !.err = "BadZipFile", !.fetched = TRUE,
                         !.dirs = dirs \cup {dv}, !.archive = "stale"]
       ELSE [base EXCEPT !.fetched = TRUE, !.unzipped = TRUE,
                         !.dirs = dirs \cup {dv},
                         !.extracted = extracted \cup {dv},
                         !.archive = "absent",
                         !.config = cfg, !.disk = ValidFile(cfg)]

\* ------------------------------------------------------------------ getPath

\* self.config["lastDownloadDriver"]["driverPath"], the expression every
\* return of getPath evaluates.
cachedDriverPath(cfg) ==
    LET d == getItem(cfg, "lastDownloadDriver")
    IN IF d.raised THEN d ELSE getItem(d.value, "driverPath")

\* The branch getPath takes for the detected version.
branchOf(cfg, curr) ==
    IF Falsy(cfg["currentChromeVersion"]) THEN "NoPriorVersion"
    ELSE IF curr = cfg["currentChromeVersion"] THEN "SameVersion"
    ELSE LET paired == getItem(cfg["lastDownloadedDriver"], "chromeVersion")
         IN IF paired.raised THEN "KeyError"
            ELSE IF getMajorVersion(curr) = getMajorVersion(paired.value)
            THEN "SameMajor"
            ELSE "DifferentMajor"

\* getPath() in the current state, with the environment's answers as for
\* downloadDriver.
getPath(resp, fetch, zipok, t, tick) ==
    LET cv == getChromeVersion(platform, detect, chrome)
        curr == cv.value
        br == branchOf(config, curr)
        dl == downloadDriver(curr, resp, fetch, zipok, t, tick)
        quiet == [Untouched EXCEPT !.err = ""]
    IN IF cv.raised
       THEN [branch |-> "NoDetect", curr |-> None, eff |-> quiet, res |-> Raise(cv.err)]
       ELSE IF br = "KeyError"
       THEN [branch |-> br, curr |-> curr, eff |-> quiet, res |-> Raise("KeyError")]
       ELSE IF br \in {"NoPriorVersion", "DifferentMajor"}
       THEN [branch |-> br, curr |-> curr, eff |-> dl,
             res |-> IF dl.err # "" THEN Raise(dl.err)
                     ELSE cachedDriverPath(dl.config)]
       ELSE [branch |-> br, curr |-> curr, eff |-> quiet,
             res |-> cachedDriverPath(config)]

\* ------------------------------------------------------------------ calls

NoCall ==
    [op |-> "none", arg |-> None, branch |-> "", outcome |-> "", err |-> "",
     value |-> None, resp |-> "", fetch |-> "", dv |-> None, hit |-> FALSE,
     fetched |-> FALSE, unzipped |-> FALSE, lookups |-> 0,
     preConfig |-> EmptyDict, preDisk |-> NoFile, preDirs |-> {}]

CallRecord(op, arg, branch, res, eff, resp, fetch) ==
    [op |-> op, arg |-> arg, branch |-> branch,
     outcome |-> IF res.raised THEN "raised" ELSE "returned",
     err |-> res.err, value |-> res.value,
     resp |-> IF eff.lookups > 0 THEN resp ELSE "",
     fetch |-> IF eff.lookups > 0 /\ eff.dv # None /\ ~eff.hit THEN fetch ELSE "",
     dv |-> eff.dv, hit |-> eff.hit, fetched |-> eff.fetched,
     unzipped |-> eff.unzipped, lookups |-> eff.lookups,
     preConfig |-> config, preDisk |-> diskConfig, preDirs |-> dirs]

\* A call the environment made fail: no version detected, no driver version
\* from the lookup, a failed fetch, or an archive that does not extract.
EnvFailure(c) ==
    \/ c.branch = "NoDetect"
    \/ c.resp \in {"404", "exception"}
    \/ c.fetch = "error"
    \/ c.fetched /\ ~c.unzipped

Summary(c) ==
    [op |-> c.op, outcome |-> c.outcome, value |-> c.value, fetched |-> c.fetched,
     envFailure |-> EnvFailure(c)]

Apply(eff) ==
    /\ config' = eff.config
    /\ diskConfig' = eff.disk
    /\ dirs' = eff.dirs
    /\ extracted' = eff.extracted
    /\ archive' = eff.archive

\* ------------------------------------------------------------------ actions

\* DriverManager(): the whole of __init__.
Construct ==
    /\ ctor.state = "new"
    /\ LET c == construct(platform, detect, chrome, diskConfig, rootExists, 0)
       IN /\ ctor' = [state |-> c.state, err |-> c.err,
                       hadManifest |-> diskConfig.state # "absent"]
          /\ attrs' = c.attrs
          /\ config' = c.config
          /\ diskConfig' = c.disk
          /\ rootExists' = c.root
    /\ UNCHANGED <<platform, chrome, detect, dirs, extracted, archive,
                   last, prev, patchArg, patchRes>>

\* manager.getPath()
GetPath ==
    /\ ctor.state = "ready"
    /\ \E e \in Envs :
         /\ config.lastUpdated + e.dt + e.tick <= MaxTime
         /\ LET g == getPath(e.resp, e.fetch, e.zipok,
                             config.lastUpdated + e.dt, e.tick)
            IN /\ Apply(g.eff)
               /\ last' = CallRecord("getPath", g.curr, g.branch, g.res, g.eff,
                                     e.resp, e.fetch)
               /\ prev' = Summary(last)
    /\ UNCHANGED <<platform, chrome, detect, attrs, ctor, rootExists,
                   patchArg, patchRes>>

\* manager.downloadDriver(version)
DownloadDriver ==
    /\ ctor.state = "ready"
    /\ \E version \in ChromeVersions, e \in Envs :
         /\ config.lastUpdated + e.dt + e.tick <= MaxTime
         /\ LET d == downloadDriver(version, e.resp, e.fetch, e.zipok,
                                    config.lastUpdated + e.dt, e.tick)
            IN /\ Apply(d)
               /\ last' = CallRecord("downloadDriver", version, "",
                                     IF d.err # "" THEN Raise(d.err) ELSE Ok(None),
                                     d, e.resp, e.fetch)
               /\ prev' = Summary(last)
    /\ UNCHANGED <<platform, chrome, detect, attrs, ctor, rootExists,
                   patchArg, patchRes>>

\* The browser on the host is updated or downgraded between calls.
ChromeUpdate ==
    /\ ctor.state = "ready"
    /\ \E v \in ChromeVersions \ {chrome} : chrome' = v
    /\ last' = NoCall
    /\ prev' = Summary(NoCall)
    /\ UNCHANGED <<platform, detect, attrs, ctor, rootExists, config, diskConfig,
                   dirs, extracted, archive, patchArg, patchRes>>

\* removePatch(version) on any string.
Alphabet == {"9", "6", "."}

Strings == UNION {[1..n -> Alphabet] : n \in 0..MaxLen}

RemovePatch ==
    /\ ctor.state = "patch"
    /\ patchRes' = removePatch(patchArg)
    /\ ctor' = [ctor EXCEPT !.state = "patched"]
    /\ UNCHANGED <<platform, chrome, detect, attrs, rootExists, config,
                   diskConfig, dirs, extracted, archive, last, prev,
                   patchArg>>

\* ------------------------------------------------------------------ specifications

Detections == {"registry", "folder", "none"}

\* A manifest an earlier run of the tool left in config.json.
OlderConfig ==
    LET rec == driverConfigOf(D96, V96a, 0)
    IN updateConfig(recordDownload(DefaultConfig(0), rec, V96a), 0)

\* getPath and downloadDriver are checked on a manager that holds what the
\* statements of __init__ assign on a host with no manifest yet: the platform,
\* the default manifest of __readConfig, written to config.json, and the
\* ensured cache root.  (SpecCtor below runs __init__ itself, in the order
\* of its statements.)
Init ==
    /\ platform \in Platforms
    /\ chrome \in ChromeVersions
    /\ detect \in Detections
    /\ platform # "win32" => detect = "none"
    /\ attrs = AllAttrs
    /\ ctor = [state |-> "ready", err |-> "", hadManifest |-> FALSE]
    /\ rootExists = TRUE
    /\ config = DefaultConfig(0)
    /\ diskConfig = ValidFile(DefaultConfig(0))
    /\ dirs = {}
    /\ extracted = {}
    /\ archive = "absent"
    /\ last = NoCall
    /\ prev = Summary(NoCall)
    /\ patchArg = <<>>
    /\ patchRes = <<>>

Next == GetPath \/ DownloadDriver \/ ChromeUpdate

Spec == Init /\ [][Next]_vars

\* The host before DriverManager() is called.
InitCtor ==
    /\ platform \in Platforms
    /\ chrome \in ChromeVersions
    /\ detect \in Detections
    /\ attrs = {}
    /\ ctor = [state |-> "new", err |-> "", hadManifest |-> FALSE]
    /\ rootExists \in BOOLEAN
    /\ config = EmptyDict
    /\ diskConfig \in {NoFile, ValidFile(DefaultConfig(0)), ValidFile(OlderConfig),
                       CorruptFile}
    /\ diskConfig.state # "absent" => rootExists
    /\ dirs = {}
    /\ extracted = {}
    /\ archive = "absent"
    /\ last = NoCall
    /\ prev = Summary(NoCall)
    /\ patchArg = <<>>
    /\ patchRes = <<>>

NextCtor == Construct

SpecCtor == InitCtor /\ [][NextCtor]_vars

\* removePatch on its own.
InitPatch ==
    /\ platform = "linux"
    /\ chrome = V96a
    /\ detect = "none"
    /\ attrs = AllAttrs
    /\ ctor = [state |-> "patch", err |-> "", hadManifest |-> FALSE]
    /\ rootExists = TRUE
    /\ config = DefaultConfig(0)
    /\ diskConfig = ValidFile(DefaultConfig(0))
    /\ dirs = {}
    /\ extracted = {}
    /\ archive = "absent"
    /\ last = NoCall
    /\ prev = Summary(NoCall)
    /\ patchArg \in Strings
    /\ patchRes = <<>>

NextPatch == RemovePatch

SpecPatch == InitPatch /\ [][NextPatch]_vars

\* ------------------------------------------------------------------ claims

Drivers == config.downloadedDrivers

\* The driverPath of a record of the manifest whose directory an archive was
\* extracted into.
ExistingDriverPath(path) ==
    \E i \in 1..Len(Drivers) :
        /\ Drivers[i].driverPath = path
        /\ Drivers[i].version \in extracted

C2_TwoCallsSamePath ==
    (/\ last.op = "getPath" /\ prev.op = "getPath"
     /\ ~EnvFailure(last) /\ ~prev.envFailure) =>
        /\ prev.outcome = "returned"
        /\ last.outcome = "returned"
        /\ last.value = prev.value
        /\ ~last.fetched

\* C3: on a detected version that differs from the recorded one but has the
\* major of the last downloaded driver's browser version, getPath() returns
\* that driver's path, downloads nothing and leaves the manifest unchanged.
C3_SameMajorReturnsCached ==
    (last.op = "getPath" /\ last.branch = "SameMajor") =>
        /\ last.outcome = "returned"
        /\ last.value = last.preConfig.lastDownloadedDriver.driverPath
        /\ ~last.fetched
        /\ config = last.preConfig
        /\ diskConfig = last.preDisk

\* C4: on a detected version of another major than the cached one, getPath()
\* downloads a driver and the manifest's currentChromeVersion is the detected
\* version afterwards, whatever directories exist under the cache root.
C4_DifferentMajorDownloads ==
    (last.op = "getPath" /\ last.branch = "DifferentMajor" /\ ~EnvFailure(last)) =>
        /\ last.fetched
        /\ config.currentChromeVersion = last.arg

\* The manifest history grew by exactly one record, which is also
\* lastDownloadedDriver.
GrewByOne ==
    LET before == last.preConfig.downloadedDrivers
    IN /\ Len(Drivers) = Len(before) + 1
       /\ SubSeq(Drivers, 1, Len(before)) = before
       /\ config.lastDownloadedDriver = Drivers[Len(Drivers)]

\* C5 as stated: after a downloadDriver(V) that returns without raising,
\* downloadedDrivers is one longer, its earlier records are unchanged and
\* lastDownloadedDriver is the appended record.
C5_ReturnAppendsOne ==
    (last.op = "downloadDriver" /\ last.outcome = "returned") => GrewByOne

\* C5 amended: the same, for a downloadDriver(V) that returns without raising
\* when no directory of the resolved driver version existed before the call.
C5_ReturnAppendsOneUnlessCached ==
    (/\ last.op = "downloadDriver" /\ last.outcome = "returned"
     /\ last.dv \notin last.preDirs) => GrewByOne

C5_Witness ==
    /\ last.op = "downloadDriver" /\ last.outcome = "returned"
    /\ last.dv \notin last.preDirs
    /\ Len(last.preConfig.downloadedDrivers) = 1

\* C6: when a directory named after the resolved driver version exists
\* already, downloadDriver fetches and extracts nothing and leaves the
\* manifest, in memory and on disk, as it was.
C6_CachedLeavesManifest ==
    (/\ last.op = "downloadDriver" /\ last.dv # None
     /\ last.dv \in last.preDirs) =>
        /\ ~last.fetched /\ ~last.unzipped
        /\ last.outcome = "returned"
        /\ config = last.preConfig
        /\ diskConfig = last.preDisk
        /\ dirs = last.preDirs

\* The short-circuit taken with a manifest that records another browser
\* version than the one asked for.
C6_Witness ==
    /\ last.op = "downloadDriver" /\ last.dv # None
    /\ last.dv \in last.preDirs
    /\ Len(Drivers) > 0
    /\ config.currentChromeVersion # last.arg

\* C7: DriverManager() on a host with no manifest file ends with the cache
\* root created and the default manifest in memory and in config.json.
C7_ConstructCreatesDefault ==
    (/\ ctor.state \in {"ready", "raised"} /\ ~ctor.hadManifest
     /\ ~getChromeVersion(platform, detect, chrome).raised) =>
        /\ ctor.state = "ready"
        /\ rootExists
        /\ Drivers = <<>>
        /\ config.currentChromeVersion = None
        /\ config.lastDownloadedDriver = EmptyDict
        /\ diskConfig = ValidFile(config)

Dots(s) == {i \in 1..Len(s) : s[i] = "."}

\* Four non-empty components of digits.
FourComponent(s) ==
    /\ Cardinality(Dots(s)) = 3
    /\ 1 \notin Dots(s) /\ Len(s) \notin Dots(s)
    /\ \A i \in Dots(s) : i + 1 \notin Dots(s)

\* C8: removePatch of a version with a "." is the version without its last
\* "." and the segment after it (for a four-component version, its first
\* three components); a version with no "." comes back unchanged.
C8_RemovePatch ==
    ctor.state = "patched" =>
        /\ Dots(patchArg) = {} => patchRes = patchArg
        /\ Dots(patchArg) # {} =>
              \E k \in Dots(patchArg) :
                  /\ \A j \in Dots(patchArg) : j <= k
                  /\ patchArg = patchRes \o <<".">>
                                  \o SubSeq(patchArg, k + 1, Len(patchArg))
        /\ FourComponent(patchArg) => Cardinality(Dots(patchRes)) = 2

C8_Witness ==
    /\ ctor.state = "patched"
    /\ FourComponent(patchArg)
    /\ Len(patchRes) = Len(patchArg) - 2

Unchanged ==
    /\ config = last.preConfig
    /\ diskConfig = last.preDisk
    /\ dirs = last.preDirs

\* C9 as stated: a downloadDriver call whose lookup or fetch raises a
\* transport error raises nothing to its caller.
C9_TransportErrorSwallowed ==
    (/\ last.op = "downloadDriver"
     /\ (last.resp = "exception" \/ last.fetch = "error")) =>
        last.outcome = "returned"

\* C9 amended: a transport error of the lookup is caught and leaves None as
\* the driver version, on which building the cache-check path raises
\* TypeError; a transport error of the fetch is not caught; either way the
\* call of downloadDriver or getPath raises and the manifest and the cache
\* directories are as before.
C9_TransportErrorRaises ==
    /\ (last.op # "none" /\ last.resp = "exception") =>
          /\ last.outcome = "raised" /\ last.err = "TypeError"
          /\ last.dv = None
          /\ Unchanged
    /\ (last.op # "none" /\ last.fetch = "error") =>
          /\ last.outcome = "raised" /\ last.err = "URLError"
          /\ ~last.fetched
          /\ Unchanged

C9_Witness ==
    /\ last.op = "downloadDriver"
    /\ last.resp = "exception"
    /\ last.outcome = "raised"
    /\ Len(Drivers) > 0

\* C10: the manifest is either the empty default (no records, an empty
\* lastDownloadedDriver, no current browser version) or its
\* lastDownloadedDriver is the last record and its current browser version
\* that record's; and no two records have the same driver version.
C10_ManifestConsistent ==
    /\ \/ /\ Drivers = <<>>
          /\ config.lastDownloadedDriver = EmptyDict
          /\ config.currentChromeVersion = None
       \/ /\ Drivers # <<>>
          /\ config.lastDownloadedDriver = Drivers[Len(Drivers)]
          /\ config.currentChromeVersion = Drivers[Len(Drivers)].chromeVersion
    /\ \A i, j \in 1..Len(Drivers) :
          Drivers[i].version = Drivers[j].version => i = j

\* Two records, and a call that found its driver's directory already there.
C10_Witness ==
    /\ Len(Drivers) = 2
    /\ last.op # "none" /\ last.hit

====
